---- MODULE Spec2Model ----
(***************************************************************************)
(* A model of citrailmu's CitraIlmu class (src/src/citrailmu/__init__.py): *)
(* the process_media pipeline, the media acquisition with its temporary    *)
(* files, the input classification and the file-name sanitization.         *)
(*                                                                         *)
(* A Python string is a sequence of characters.  An ASCII character is the *)
(* one-character TLA+ string; a non-ASCII character, and the backquote,    *)
(* which a TLA+ string cannot hold, is written as its code point           *)
(* ("U+00E9", "U+0060").  Str turns a literal into such a sequence.        *)
(*                                                                         *)
(* Spec is the pipeline: NumTasks invocations of process_media whose steps *)
(* interleave on one local storage.  SanSpec applies the sanitization to   *)
(* every string of up to MaxLen characters, ClassifySpec the dispatch of   *)
(* __media_processor to a set of inputs.                                   *)
(***************************************************************************)
EXTENDS Integers, Sequences, FiniteSets, TLC

Str(lit) == [i \in 1..Len(lit) |-> SubSeq(lit, i, i)]

(* Python's None: a value that is no string (its one element is no character). *)
None == <<"None">>

-----------------------------------------------------------------------------
(* Bounds of the model. *)

(* The number of concurrent process_media invocations. *)
NumTasks == 2
(* The wall clock (time.time(), datetime.now()) runs from 0 to MaxTime seconds. *)
MaxTime == 1
(* The longest string the sanitization is applied to on its own. *)
MaxLen == 3

-----------------------------------------------------------------------------
(* Characters. *)

AsciiLower == {"a","b","c","d","e","f","g","h","i","j","k","l","m",
               "n","o","p","q","r","s","t","u","v","w","x","y","z"}
AsciiUpper == {"A","B","C","D","E","F","G","H","I","J","K","L","M",
               "N","O","P","Q","R","S","T","U","V","W","X","Y","Z"}
AsciiDigit == {"0","1","2","3","4","5","6","7","8","9"}

(* Letters and digits beyond ASCII: e-acute, superscript two, Arabic-Indic *)
(* digit three, CJK "middle".  str.isalnum() is true of each.              *)
UnicodeAlnum == {"U+00E9", "U+00B2", "U+0663", "U+4E2D"}

(* \w of a Python 3 str pattern (no re.ASCII flag): every character for    *)
(* which str.isalnum() holds, and the underscore.                          *)
IsWordChar(c) == c \in AsciiLower \cup AsciiUpper \cup AsciiDigit \cup UnicodeAlnum \cup {"_"}

(* \d of a str pattern, and the class [\da-fA-F]. *)
IsHexChar(c) == c \in AsciiDigit \cup {"U+0663"} \cup {"a","b","c","d","e","f","A","B","C","D","E","F"}

IsSpaceChar(c) == c \in {" ", "\n", "\t", "\r"}

(* str.lower() on the characters of the model. *)
LowerChar(c) ==
    CASE c = "A" -> "a" [] c = "B" -> "b" [] c = "C" -> "c" [] c = "D" -> "d"
      [] c = "E" -> "e" [] c = "F" -> "f" [] c = "G" -> "g" [] c = "H" -> "h"
      [] c = "I" -> "i" [] c = "J" -> "j" [] c = "K" -> "k" [] c = "L" -> "l"
      [] c = "M" -> "m" [] c = "N" -> "n" [] c = "O" -> "o" [] c = "P" -> "p"
      [] c = "Q" -> "q" [] c = "R" -> "r" [] c = "S" -> "s" [] c = "T" -> "t"
      [] c = "U" -> "u" [] c = "V" -> "v" [] c = "W" -> "w" [] c = "X" -> "x"
      [] c = "Y" -> "y" [] c = "Z" -> "z" [] OTHER -> c

Lower(s) == [i \in 1..Len(s) |-> LowerChar(s[i])]

-----------------------------------------------------------------------------
(* String helpers. *)

(* s has the literal lit at position p. *)
HasAt(s, p, lit) ==
    /\ p + Len(lit) - 1 <= Len(s)
    /\ \A i \in 1..Len(lit) : s[p + i - 1] = lit[i]

StartsWith(s, lit) == HasAt(s, 1, lit)

(* The positions of character c in s. *)
Positions(s, c) == {i \in 1..Len(s) : s[i] = c}

SetMax(S) == CHOOSE x \in S : \A y \in S : y <= x
SetMin(S) == CHOOSE x \in S : \A y \in S : x <= y

(* str.rfind(c) and str.find(c), 1-based, 0 when absent. *)
RFind(s, c) == IF Positions(s, c) = {} THEN 0 ELSE SetMax(Positions(s, c))
Find(s, c) == IF Positions(s, c) = {} THEN 0 ELSE SetMin(Positions(s, c))

(* str.replace(a, b) of single characters. *)
Replace(s, a, b) == [i \in 1..Len(s) |-> IF s[i] = a THEN b ELSE s[i]]

(* str(n) of a natural number. *)
DigitChar(d) == CASE d = 0 -> "0" [] d = 1 -> "1" [] d = 2 -> "2" [] d = 3 -> "3"
                  [] d = 4 -> "4" [] d = 5 -> "5" [] d = 6 -> "6" [] d = 7 -> "7"
                  [] d = 8 -> "8" [] d = 9 -> "9"

RECURSIVE Decimal(_)
Decimal(n) == IF n < 10 THEN <<DigitChar(n)>>
              ELSE Decimal(n \div 10) \o <<DigitChar(n % 10)>>

-----------------------------------------------------------------------------
(* os.path and tempfile. *)

(* tempfile.gettempdir(). *)
TmpDir == Str("/tmp")

(* os.path.basename(p): what follows the last "/". *)
Basename(p) == SubSeq(p, RFind(p, "/") + 1, Len(p))

(* The index of the dot that starts the extension of p, 0 when p has none: *)
(* the last dot after the last "/", unless only dots precede it in the     *)
(* base name (genericpath._splitext).                                      *)
ExtDot(p) ==
    LET sepIndex == RFind(p, "/")
        dotIndex == RFind(p, ".")
    IN  IF /\ dotIndex > sepIndex
           /\ \E i \in (sepIndex + 1)..(dotIndex - 1) : p[i] # "."
        THEN dotIndex ELSE 0

(* os.path.splitext(p)[0]. *)
SplitextRoot(p) == IF ExtDot(p) = 0 THEN p ELSE SubSeq(p, 1, ExtDot(p) - 1)

(* os.path.join(d, name) of two components. *)
PathJoin(d, name) ==
    IF StartsWith(name, <<"/">>) THEN name
    ELSE IF d = <<>> \/ d[Len(d)] = "/" THEN d \o name
    ELSE d \o <<"/">> \o name

(* A sanitization that also keeps the dot. *)
SanitizeKeepsDot(s) ==
    [i \in 1..Len(s) |-> IF IsWordChar(s[i]) \/ s[i] \in {"-", "."} THEN s[i] ELSE "_"]

(* re.sub(r'[^\w\-]', '_', s): every character that is neither a word      *)
(* character nor a hyphen becomes an underscore.                           *)
Sanitize(s) == [i \in 1..Len(s) |-> IF IsWordChar(s[i]) \/ s[i] = "-" THEN s[i] ELSE "_"]

(* The temp_path of __compress_audio: the sanitized stem of the input file *)
(* with the extension .mp3, in the temporary directory.                    *)
CompressTempPath(filepath) ==
    PathJoin(TmpDir, Sanitize(SplitextRoot(Basename(filepath))) \o Str(".mp3"))

-----------------------------------------------------------------------------
(* Regular expressions, matched as re.match does: from the start of the    *)
(* string, a set of positions reached after each piece of the pattern.     *)

(* The positions after one of the literals lits, matched at a position of P. *)
After(s, P, lits) == {p + Len(l) : <<p, l>> \in {pl \in P \X lits : HasAt(s, pl[1], pl[2])}}

(* The positions after the piece, or where it was skipped (the piece is optional). *)
Optional(s, P, lits) == P \cup After(s, P, lits)

(* https? *)
AfterScheme(s, P) == Optional(s, After(s, P, {Str("http")}), {Str("s")})

(* __is_youtube_url: (https?://)?(www\.)?(youtube|youtu|youtube-nocookie)\.(com|be)/ *)
IsYoutubeUrl(url) ==
    LET p1 == {1} \cup After(url, AfterScheme(url, {1}), {Str("://")})
        p2 == Optional(url, p1, {Str("www.")})
        p3 == After(url, p2, {Str("youtube"), Str("youtu"), Str("youtube-nocookie")})
        p4 == After(url, p3, {Str(".")})
        p5 == After(url, p4, {Str("com"), Str("be")})
        p6 == After(url, p5, {Str("/")})
    IN  p6 # {}

(* One repetition of (?:[-\w.]|(?:%[\da-fA-F]{2})) at position p. *)
HostItemAt(url, p) ==
    \/ p <= Len(url) /\ (IsWordChar(url[p]) \/ url[p] \in {"-", "."})
    \/ p + 2 <= Len(url) /\ url[p] = "%" /\ IsHexChar(url[p + 1]) /\ IsHexChar(url[p + 2])

(* __is_url: https?://(?:[-\w.]|(?:%[\da-fA-F]{2}))+ *)
IsUrl(url) ==
    \E p \in After(url, AfterScheme(url, {1}), {Str("://")}) : HostItemAt(url, p)

-----------------------------------------------------------------------------
(* __clean_markdown. *)

(* The three backquotes of a Markdown code fence. *)
Fence == <<"U+0060", "U+0060", "U+0060">>

IsAsciiLetter(c) == c \in AsciiLower \cup AsciiUpper

(* The first position from i on that holds no ASCII letter (Len(s) + 1 if none). *)
RECURSIVE SkipLetters(_, _)
SkipLetters(s, i) == IF i <= Len(s) /\ IsAsciiLetter(s[i]) THEN SkipLetters(s, i + 1) ELSE i

(* re.sub of an opening fence, three backquotes, [a-zA-Z]* and a newline,  *)
(* by the empty string: the part of s from position i on.                  *)
RECURSIVE SubOpenFence(_, _)
SubOpenFence(s, i) ==
    IF i > Len(s) THEN <<>>
    ELSE LET j == SkipLetters(s, i + 3)
         IN  IF HasAt(s, i, Fence) /\ j <= Len(s) /\ s[j] = "\n"
             THEN SubOpenFence(s, j + 1)
             ELSE <<s[i]>> \o SubOpenFence(s, i + 1)

(* re.sub of three backquotes and an optional newline by the empty string: *)
(* the part of s from position i on.                                       *)
RECURSIVE SubFence(_, _)
SubFence(s, i) ==
    IF i > Len(s) THEN <<>>
    ELSE IF HasAt(s, i, Fence)
         THEN SubFence(s, IF i + 3 <= Len(s) /\ s[i + 3] = "\n" THEN i + 4 ELSE i + 3)
         ELSE <<s[i]>> \o SubFence(s, i + 1)

(* str.strip(). *)
Strip(s) ==
    LET keep == {i \in 1..Len(s) : ~IsSpaceChar(s[i])}
    IN  IF keep = {} THEN <<>> ELSE SubSeq(s, SetMin(keep), SetMax(keep))

CleanMarkdown(text) == Strip(SubFence(SubOpenFence(text, 1), 1))

-----------------------------------------------------------------------------
(* The state. *)

VARIABLES
    fs,     \* local storage: path |-> [by, data], the files that exist
    now,    \* the wall clock, in seconds
    task,   \* per process_media invocation: its arguments, position and locals
    fn_pc,  \* position of the stand-alone application of a pure function
    fn_in,  \* its argument
    fn_out  \* its results

vars == <<fs, now, task, fn_pc, fn_in, fn_out>>

Tasks == 1..NumTasks

(* The writers of files: the caller of process_media, and a task. *)
Caller == <<"caller">>
ByTask(t) == <<"task", t>>

(* What a file holds: decodable media, a normalized mp3, a PDF, nothing    *)
(* (just created or truncated), or the part written before a failure.      *)
Decodable == {"media", "mp3"}

Write(f, path, by, data) ==
    [q \in DOMAIN f \cup {path} |-> IF q = path THEN [by |-> by, data |-> data] ELSE f[q]]

(* os.unlink(path). *)
Unlink(f, path) == [q \in DOMAIN f \ {path} |-> f[q]]

(* os.path.isfile(path), os.path.exists(path). *)
IsFile(f, path) == path \in DOMAIN f

(* The files the caller has on local storage before any task starts. *)
InitFs ==
    [q \in {Str("/tmp/talk.mp3"), Str("/home/u/talk.wav")} |-> [by |-> Caller, data |-> "media"]]

-----------------------------------------------------------------------------
(* Arguments of process_media and answers of the collaborators. *)

InputPaths ==
    { Str("/tmp/talk.mp3"),             \* a local file in the temporary directory
      Str("/home/u/talk.wav"),          \* a local file elsewhere
      Str("youtube.com/watch?v=x"),     \* a streaming URL
      Str("http://example.com/a.mp4"),  \* a web URL
      Str("http://example.com/"),       \* a web URL with no file name
      Str("/tmp/missing.mp4") }         \* no file, no URL

ProcessingModes == {Str("analysis"), Str("Transcript"), Str("summary")}

TargetLanguages == {Str("Bahasa Malaysia")}

(* yt.title of the platform collaborator. *)
Titles == {Str("My Talk")}

(* response.text of the AI collaborator. *)
AiTexts ==
    { <<>>,
      Str("Talk"),
      Str("# Talk"),
      Fence \o Str("markdown\n# Talk\n") \o Fence }

(* __get_taskid: the timestamp, an underscore and the first characters of  *)
(* a uuid4, which is fresh for every call: the t-th call gets the t-th.    *)
GetTaskId(t, time) == Decimal(time) \o <<"_">> \o Decimal(t)

(* The kinds of input __media_processor tells apart. *)
MediaKind(f, input_path) ==
    IF IsFile(f, input_path) THEN "LocalFile"
    ELSE IF IsYoutubeUrl(input_path) THEN "StreamingUrl"
    ELSE IF IsUrl(input_path) THEN "GenericUrl"
    ELSE "Invalid"

(* __process_youtube: temp_filename joined to the temporary directory by download(). *)
YoutubeTempPath(task_id, title) ==
    PathJoin(TmpDir, task_id \o <<"_">> \o title \o Str(".m4a"))

(* url.split('?')[0] *)
BeforeQuery(url) == IF Find(url, "?") = 0 THEN url ELSE SubSeq(url, 1, Find(url, "?") - 1)

(* __process_web_url: filename and temp_path. *)
WebTempPath(url, time) ==
    LET base == Basename(BeforeQuery(url))
        filename == IF base # <<>> THEN base ELSE Str("download_") \o Decimal(time)
    IN  PathJoin(TmpDir, filename \o Str(".mp4"))

(* __markdown_to_pdf: pdf_path. *)
PdfPath(original_path, target_language, processing_mode) ==
    LET filename == Sanitize(SplitextRoot(Basename(original_path)))
        clean_filename == filename \o <<"_">> \o Lower(processing_mode) \o <<"_">>
                            \o Replace(Lower(target_language), " ", "_")
    IN  PathJoin(TmpDir, clean_filename \o Str(".pdf"))

(* A local variable that was never assigned. *)
Unbound == <<"Unbound">>

(* __markdown_to_pdf: the local variable title after the heading check. *)
PdfTitle(markdown_text, target_language, processing_mode) ==
    IF ~StartsWith(markdown_text, Str("# "))
    THEN IF Lower(processing_mode) = Str("analysis")
         THEN Str("CitraIlmu Analysis (") \o target_language \o Str(")")
         ELSE IF Lower(processing_mode) = Str("transcript")
         THEN Str("CitraIlmu Transcript (") \o target_language \o Str(")")
         ELSE Unbound
    ELSE Unbound

-----------------------------------------------------------------------------
(* process_media, step by step.  A task is one invocation; the steps of    *)
(* different tasks interleave at the file operations and the calls of the  *)
(* collaborators.                                                          *)

IdleTask ==
    [ pc |-> "idle", task_id |-> None, input_path |-> None, target_language |-> None,
      processing_mode |-> None, kind |-> "none", downloaded_file |-> None,
      compress_path |-> None, compressed_file |-> None, markdown_text |-> None,
      pdf_file |-> None, calls |-> {}, renderer |-> "unused", result |-> <<>> ]

(* An exception on its way out of a function, in the place of its value.   *)
Raised == <<"Raised">>

(* try: ... except Exception: return None *)
ExceptReturnNone(value) == IF value = Raised THEN None ELSE value

(* "if not x" of Python for a string or None. *)
Falsy(x) == x = None \/ x = <<>>

(* process_media, lines 289-291 and 304-306: what follows the return of    *)
(* __media_processor, or an exception out of it.                           *)
AfterAcquire(tk, compressed_file) ==
    IF compressed_file = Raised
    THEN [tk EXCEPT !.pc = "done", !.result = <<None, None>>]
    ELSE IF Falsy(compressed_file)
    THEN [tk EXCEPT !.compressed_file = compressed_file, !.pc = "done", !.result = <<None, None>>]
    ELSE [tk EXCEPT !.compressed_file = compressed_file, !.pc = "ai"]

(* A call that goes on to the PDF stage although the AI stage gave no text. *)
AfterAigcNoCheck(tk, markdown_text) ==
    [tk EXCEPT !.markdown_text = markdown_text, !.pc = "pdf"]

(* process_media, lines 293-295 and 304-306: what follows the return of    *)
(* __aigc_processor, or an exception out of it.                            *)
AfterAigc(tk, markdown_text) ==
    IF markdown_text = Raised
    THEN [tk EXCEPT !.pc = "done", !.result = <<None, None>>]
    ELSE IF Falsy(markdown_text)
    THEN [tk EXCEPT !.markdown_text = markdown_text, !.pc = "done",
                    !.result = <<tk.compressed_file, None>>]
    ELSE [tk EXCEPT !.markdown_text = markdown_text, !.pc = "pdf"]

(* A return with the two elements in the wrong order. *)
AfterPdfSwapped(tk, pdf_file) ==
    IF Falsy(pdf_file)
    THEN [tk EXCEPT !.pdf_file = pdf_file, !.pc = "done", !.result = <<None, tk.compressed_file>>]
    ELSE [tk EXCEPT !.pdf_file = pdf_file, !.pc = "done", !.result = <<pdf_file, tk.compressed_file>>]

(* process_media, lines 297-302 and 304-306: what follows the return of    *)
(* __markdown_to_pdf, or an exception out of it.                           *)
AfterPdf(tk, pdf_file) ==
    IF pdf_file = Raised
    THEN [tk EXCEPT !.pc = "done", !.result = <<None, None>>]
    ELSE IF Falsy(pdf_file)
    THEN [tk EXCEPT !.pdf_file = pdf_file, !.pc = "done", !.result = <<tk.compressed_file, None>>]
    ELSE [tk EXCEPT !.pdf_file = pdf_file, !.pc = "done", !.result = <<tk.compressed_file, pdf_file>>]

(* A dispatch with no branch for an invalid input, which is taken for a    *)
(* web URL.                                                                *)
StartInvalidAsWeb(t, input_path, target_language, processing_mode) ==
    /\ task[t].pc = "idle"
    /\ LET k == MediaKind(fs, input_path)
           tk == [task[t] EXCEPT !.task_id = GetTaskId(t, now), !.input_path = input_path,
                                 !.target_language = target_language,
                                 !.processing_mode = processing_mode, !.kind = k]
       IN  task' = [task EXCEPT ![t] =
                CASE k = "LocalFile" -> [tk EXCEPT !.pc = "compress"]
                  [] k = "StreamingUrl" -> [tk EXCEPT !.pc = "youtube"]
                  [] OTHER -> [tk EXCEPT !.pc = "web_open"]]
    /\ UNCHANGED <<fs, now, fn_pc, fn_in, fn_out>>

(* process_media up to the dispatch of __media_processor: the task id, the *)
(* kind of the input, and for an invalid input the return of (None, None). *)
Start(t, input_path, target_language, processing_mode) ==
    /\ task[t].pc = "idle"
    /\ LET k == MediaKind(fs, input_path)
           tk == [task[t] EXCEPT !.task_id = GetTaskId(t, now), !.input_path = input_path,
                                 !.target_language = target_language,
                                 !.processing_mode = processing_mode, !.kind = k]
       IN  task' = [task EXCEPT ![t] =
                CASE k = "LocalFile" -> [tk EXCEPT !.pc = "compress"]
                  [] k = "StreamingUrl" -> [tk EXCEPT !.pc = "youtube"]
                  [] k = "GenericUrl" -> [tk EXCEPT !.pc = "web_open"]
                  [] OTHER -> AfterAcquire(tk, None)]
    /\ UNCHANGED <<fs, now, fn_pc, fn_in, fn_out>>

(* __process_youtube, lines 110-115: the platform collaborator resolves the *)
(* video and downloads its audio track.  It raises before it created the   *)
(* file, or after it wrote a part of it, or it returns the file.           *)
YoutubeDownload(t, title, outcome) ==
    /\ task[t].pc = "youtube"
    /\ LET path == YoutubeTempPath(task[t].task_id, title)
           tk == [task[t] EXCEPT !.calls = @ \cup {"downloader"}]
       IN  CASE outcome = "raise_early" ->
                  /\ task' = [task EXCEPT ![t] = AfterAcquire(tk, None)]
                  /\ fs' = fs
             [] outcome = "raise_partial" ->
                  /\ task' = [task EXCEPT ![t] = AfterAcquire([tk EXCEPT !.downloaded_file = path], None)]
                  /\ fs' = Write(fs, path, ByTask(t), "partial")
             [] outcome = "ok" ->
                  /\ task' = [task EXCEPT ![t] = [tk EXCEPT !.downloaded_file = path, !.pc = "compress"]]
                  /\ fs' = Write(fs, path, ByTask(t), "media")
    /\ UNCHANGED <<now, fn_pc, fn_in, fn_out>>

(* __process_web_url, lines 132-135: temp_path is opened for writing, which *)
(* creates the file or truncates the one that is there, or raises and      *)
(* leaves local storage as it is.                                          *)
WebOpen(t, outcome) ==
    /\ task[t].pc = "web_open"
    /\ LET path == WebTempPath(task[t].input_path, now)
       IN  CASE outcome = "raise" ->
                  /\ task' = [task EXCEPT ![t] = AfterAcquire(task[t], None)]
                  /\ fs' = fs
             [] outcome = "ok" ->
                  /\ fs' = Write(fs, path, ByTask(t), "empty")
                  /\ task' = [task EXCEPT ![t] = [@ EXCEPT !.downloaded_file = path, !.pc = "web_get"]]
    /\ UNCHANGED <<now, fn_pc, fn_in, fn_out>>

(* __process_web_url, lines 136-139: the GET raises, or answers 200 and the *)
(* chunks are written, or answers another status and nothing is written.   *)
(* What is written goes to the open file; a file unlinked meanwhile does   *)
(* not come back.                                                          *)
WebGet(t, outcome) ==
    /\ task[t].pc = "web_get"
    /\ LET path == task[t].downloaded_file
           tk == [task[t] EXCEPT !.calls = @ \cup {"downloader"}]
           put(data) == IF IsFile(fs, path) THEN Write(fs, path, ByTask(t), data) ELSE fs
       IN  CASE outcome = "raise" ->
                  /\ task' = [task EXCEPT ![t] = AfterAcquire(tk, None)]
                  /\ fs' = fs
             [] outcome = "raise_partial" ->
                  /\ task' = [task EXCEPT ![t] = AfterAcquire(tk, None)]
                  /\ fs' = put("partial")
             [] outcome = "status_200" ->
                  /\ task' = [task EXCEPT ![t] = [tk EXCEPT !.pc = "compress"]]
                  /\ fs' = put("media")
             [] outcome = "status_other" ->
                  /\ task' = [task EXCEPT ![t] = [tk EXCEPT !.pc = "compress"]]
                  /\ fs' = fs
    /\ UNCHANGED <<now, fn_pc, fn_in, fn_out>>

(* __compress_audio: the file read is the input path of a local file, else *)
(* the downloaded file.  It returns temp_path, or None when the decoder    *)
(* cannot read the file or the encoder fails, before or after it wrote a   *)
(* part of temp_path.                                                      *)
CompressAudio(t, outcome) ==
    /\ task[t].pc = "compress"
    /\ LET filepath == IF task[t].kind = "LocalFile" THEN task[t].input_path
                       ELSE task[t].downloaded_file
           temp_path == CompressTempPath(filepath)
           readable == IsFile(fs, filepath) /\ fs[filepath].data \in Decodable
           tk == [task[t] EXCEPT !.calls = @ \cup {"normalizer"}, !.compress_path = temp_path]
           return(value) == IF task[t].kind = "LocalFile"
                            THEN AfterAcquire(tk, value)
                            ELSE [tk EXCEPT !.compressed_file = value, !.pc = "cleanup"]
       IN  CASE outcome = "ok" /\ readable ->
                  /\ task' = [task EXCEPT ![t] = return(temp_path)]
                  /\ fs' = Write(fs, temp_path, ByTask(t), "mp3")
             [] outcome = "fail_write" /\ readable ->
                  /\ task' = [task EXCEPT ![t] = return(None)]
                  /\ fs' = Write(fs, temp_path, ByTask(t), "partial")
             [] OTHER ->
                  /\ task' = [task EXCEPT ![t] = return(None)]
                  /\ fs' = fs
    /\ UNCHANGED <<now, fn_pc, fn_in, fn_out>>

(* A cleanup that looks for the downloaded file only after a successful    *)
(* normalization.                                                          *)
CleanupOnlyOnSuccess(t) ==
    /\ task[t].pc = "cleanup"
    /\ task' = [task EXCEPT ![t] =
           IF IsFile(fs, task[t].downloaded_file) /\ task[t].compressed_file # None
           THEN [@ EXCEPT !.pc = "unlink"]
           ELSE AfterAcquire(task[t], task[t].compressed_file)]
    /\ UNCHANGED <<fs, now, fn_pc, fn_in, fn_out>>

(* __process_youtube, line 119 and 122, and __process_web_url, lines 142   *)
(* and 144: os.path.exists of the downloaded file; if it is not there, the *)
(* result of the compression is returned.                                  *)
Cleanup(t) ==
    /\ task[t].pc = "cleanup"
    /\ task' = [task EXCEPT ![t] =
           IF IsFile(fs, task[t].downloaded_file)
           THEN [@ EXCEPT !.pc = "unlink"]
           ELSE AfterAcquire(task[t], task[t].compressed_file)]
    /\ UNCHANGED <<fs, now, fn_pc, fn_in, fn_out>>

(* __process_youtube, lines 120-126, and __process_web_url, lines 143-148: *)
(* os.unlink of the downloaded file and the return of the result of the    *)
(* compression; if the file went away since it was looked for, os.unlink   *)
(* raises and None is returned.                                            *)
CleanupUnlink(t) ==
    /\ task[t].pc = "unlink"
    /\ IF IsFile(fs, task[t].downloaded_file)
       THEN /\ fs' = Unlink(fs, task[t].downloaded_file)
            /\ task' = [task EXCEPT ![t] = AfterAcquire(task[t], task[t].compressed_file)]
       ELSE /\ fs' = fs
            /\ task' = [task EXCEPT ![t] = AfterAcquire(task[t], None)]
    /\ UNCHANGED <<now, fn_pc, fn_in, fn_out>>

(* __aigc_processor: the duration of the compressed audio is read, the mode *)
(* is checked, and then the AI collaborator is asked for the text.         *)
AigcText(f, input_path, processing_mode, answer) ==
    ExceptReturnNone(
        IF ~(IsFile(f, input_path) /\ f[input_path].data \in Decodable) THEN Raised
        ELSE IF Lower(processing_mode) \notin {Str("analysis"), Str("transcript")} THEN None
        ELSE IF answer = Raised THEN Raised
        ELSE CleanMarkdown(answer))

(* __aigc_processor: whether upload_file and generate_content are reached. *)
AigcCallsAi(f, input_path, processing_mode) ==
    /\ IsFile(f, input_path) /\ f[input_path].data \in Decodable
    /\ Lower(processing_mode) \in {Str("analysis"), Str("transcript")}

(* The AI stage of process_media; answer is response.text, or the          *)
(* exception of the collaborator.                                          *)
AigcProcessor(t, answer) ==
    /\ task[t].pc = "ai"
    /\ LET tk == IF AigcCallsAi(fs, task[t].compressed_file, task[t].processing_mode)
                 THEN [task[t] EXCEPT !.calls = @ \cup {"ai"}] ELSE task[t]
           text == AigcText(fs, task[t].compressed_file, task[t].processing_mode, answer)
       IN  task' = [task EXCEPT ![t] = AfterAigc(tk, text)]
    /\ UNCHANGED <<fs, now, fn_pc, fn_in, fn_out>>

(* __markdown_to_pdf: the value returned.  The heading is put in front     *)
(* with title (line 246), the renderer takes the section, title is read    *)
(* for the metadata (line 253), the renderer saves the file; reading an    *)
(* unassigned title raises, the renderer may raise, and every exception    *)
(* gives None.                                                             *)
PdfFile(markdown_text, original_path, target_language, processing_mode, rendering) ==
    LET title == PdfTitle(markdown_text, target_language, processing_mode)
    IN  ExceptReturnNone(
            IF markdown_text = None \/ original_path = None THEN Raised
            ELSE IF ~StartsWith(markdown_text, Str("# ")) /\ title = Unbound THEN Raised
            ELSE IF rendering = "raise" THEN Raised
            ELSE IF title = Unbound THEN Raised
            ELSE PdfPath(original_path, target_language, processing_mode))

(* The PDF stage of process_media. *)
MarkdownToPdf(t, rendering) ==
    /\ task[t].pc = "pdf"
    /\ LET tk == [task[t] EXCEPT !.calls = @ \cup {"pdf"}, !.renderer = rendering]
           pdf_file == PdfFile(task[t].markdown_text, task[t].compressed_file,
                               task[t].target_language, task[t].processing_mode, rendering)
       IN  /\ task' = [task EXCEPT ![t] = AfterPdf(tk, pdf_file)]
           /\ fs' = IF pdf_file = None THEN fs ELSE Write(fs, pdf_file, ByTask(t), "pdf")
    /\ UNCHANGED <<now, fn_pc, fn_in, fn_out>>

(* A second passes. *)
Tick ==
    /\ now < MaxTime
    /\ now' = now + 1
    /\ UNCHANGED <<fs, task, fn_pc, fn_in, fn_out>>

Init ==
    /\ fs = InitFs
    /\ now = 0
    /\ task = [t \in Tasks |-> IdleTask]
    /\ fn_pc = "off"
    /\ fn_in = <<>>
    /\ fn_out = <<>>

Next ==
    \/ \E t \in Tasks, ip \in InputPaths, lang \in TargetLanguages, mode \in ProcessingModes :
           Start(t, ip, lang, mode)
    \/ \E t \in Tasks, title \in Titles, outcome \in {"raise_early", "raise_partial", "ok"} :
           YoutubeDownload(t, title, outcome)
    \/ \E t \in Tasks, outcome \in {"ok", "raise"} : WebOpen(t, outcome)
    \/ \E t \in Tasks, outcome \in {"raise", "raise_partial", "status_200", "status_other"} :
           WebGet(t, outcome)
    \/ \E t \in Tasks, outcome \in {"ok", "fail", "fail_write"} : CompressAudio(t, outcome)
    \/ \E t \in Tasks : Cleanup(t)
    \/ \E t \in Tasks : CleanupUnlink(t)
    \/ \E t \in Tasks, answer \in AiTexts \cup {Raised} : AigcProcessor(t, answer)
    \/ \E t \in Tasks, rendering \in {"ok", "raise"} : MarkdownToPdf(t, rendering)
    \/ Tick

Spec == Init /\ [][Next]_vars

-----------------------------------------------------------------------------
(* The sanitization on its own: the re.sub of __compress_audio (line 61)   *)
(* and __markdown_to_pdf (line 193), applied to a string and to its result. *)

SanAlphabet == {"a", "Z", "7", "_", "-", ".", " ", "/", "U+00E9", "U+0663"}

RECURSIVE StringsUpTo(_)
StringsUpTo(n) ==
    IF n = 0 THEN {<<>>}
    ELSE LET shorter == StringsUpTo(n - 1)
         IN  shorter \cup {Append(w, c) : w \in {x \in shorter : Len(x) = n - 1}, c \in SanAlphabet}

SanInit ==
    /\ fs = InitFs
    /\ now = 0
    /\ task = [t \in Tasks |-> IdleTask]
    /\ fn_pc = "san0"
    /\ fn_in \in StringsUpTo(MaxLen)
    /\ fn_out = <<>>

SanitizeOnce ==
    /\ fn_pc = "san0"
    /\ fn_out' = <<Sanitize(fn_in)>>
    /\ fn_pc' = "san1"
    /\ UNCHANGED <<fs, now, task, fn_in>>

SanitizeAgain ==
    /\ fn_pc = "san1"
    /\ fn_out' = Append(fn_out, Sanitize(fn_out[1]))
    /\ fn_pc' = "san2"
    /\ UNCHANGED <<fs, now, task, fn_in>>

SanNext == SanitizeOnce \/ SanitizeAgain

SanSpec == SanInit /\ [][SanNext]_vars

-----------------------------------------------------------------------------
(* The dispatch of __media_processor on its own, over inputs put together  *)
(* from schemes, hosts and paths, each with and without a file of that name. *)

ClassifyInputs ==
    { sch \o www \o host \o tld \o rest :
        sch \in {<<>>, Str("http://"), Str("https://"), Str("HTTPS://"), Str("ftp://")},
        www \in {<<>>, Str("www.")},
        host \in {Str("youtube"), Str("youtu"), Str("youtube-nocookie"), Str("YouTube"),
                  Str("example"), Str("myyoutube")},
        tld \in {Str(".com"), Str(".be"), Str(".org")},
        rest \in {<<>>, Str("/"), Str("/watch?v=x")} }
    \cup {Str("/tmp/missing.mp4"), Str("/tmp/talk.mp3"), Str("http://"), Str("http:///a.mp4"),
          Str("https://%41.com/a"), <<>>}

ClassifyInit ==
    /\ fn_in \in ClassifyInputs
    /\ fs \in {InitFs, Write(InitFs, fn_in, Caller, "media")}
    /\ now = 0
    /\ task = [t \in Tasks |-> IdleTask]
    /\ fn_pc = "kind0"
    /\ fn_out = <<>>

Classify ==
    /\ fn_pc = "kind0"
    /\ fn_out' = <<MediaKind(fs, fn_in)>>
    /\ fn_pc' = "kind1"
    /\ UNCHANGED <<fs, now, task, fn_in>>

ClassifyNext == Classify

ClassifySpec == ClassifyInit /\ [][ClassifyNext]_vars

-----------------------------------------------------------------------------
(* The claims. *)

Returned(t) == task[t].pc = "done"

(* A path in the temporary directory, as process_media hands out. *)
IsTempPath(x) == x # None /\ StartsWith(x, TmpDir \o <<"/">>)

ValidMode(mode) == Lower(mode) \in {Str("analysis"), Str("transcript")}

(* C1: every call of process_media returns, whatever its stages did, and   *)
(* returns (None, None), (compressed, None) or (compressed, pdf), the      *)
(* elements being None or paths of files; nothing is returned before the   *)
(* call is over, and no PDF is returned without the audio.                 *)
C1_ResultShape ==
    \A t \in Tasks :
        IF Returned(t)
        THEN \/ task[t].result = <<None, None>>
             \/ /\ Len(task[t].result) = 2
                /\ IsTempPath(task[t].result[1])
                /\ task[t].result[1] = task[t].compress_path
                /\ \/ task[t].result[2] = None
                   \/ /\ IsTempPath(task[t].result[2])
                      /\ task[t].result[2] = PdfPath(task[t].compressed_file,
                                task[t].target_language, task[t].processing_mode)
        ELSE task[t].result = <<>>

(* C1 witness: the renderer raised and the call returned the audio alone,  *)
(* while another call returned both files.                                 *)
C1_Witness ==
    \E t, u \in Tasks :
        /\ Returned(t) /\ task[t].renderer = "raise"
        /\ task[t].result = <<task[t].compressed_file, None>>
        /\ Returned(u) /\ task[u].result[2] # None

(* C2: once the acquisition succeeded, if the AI stage yields no text,     *)
(* because the collaborator failed or because the mode is neither analysis *)
(* nor transcript in any letter case, process_media returns                *)
(* (compressed_path, None), the compressed file exists on local storage,   *)
(* and the PDF renderer was not invoked.                                   *)
C2_NoTextKeepsAudio ==
    \A t \in Tasks :
        /\ Returned(t)
        /\ task[t].compressed_file # None
        /\ Falsy(task[t].markdown_text) \/ ~ValidMode(task[t].processing_mode)
        => /\ task[t].result = <<task[t].compressed_file, None>>
           /\ IsFile(fs, task[t].compressed_file)
           /\ "pdf" \notin task[t].calls

(* C2 witness: one call returned the audio alone for the mode "summary",   *)
(* another because the AI collaborator failed under a valid mode.          *)
C2_Witness ==
    \E t, u \in Tasks :
        /\ Returned(t) /\ task[t].processing_mode = Str("summary")
        /\ task[t].result = <<task[t].compressed_file, None>> /\ task[t].compressed_file # None
        /\ Returned(u) /\ ValidMode(task[u].processing_mode) /\ "ai" \in task[u].calls
        /\ task[u].markdown_text = None
        /\ task[u].result = <<task[u].compressed_file, None>> /\ task[u].compressed_file # None

(* C3: when acquire returns for a streaming or web URL whose download      *)
(* completed, the downloaded file is not on local storage, whether the     *)
(* normalization succeeded or failed.                                      *)
C3_DownloadGoneAtReturn ==
    [][\A t \in Tasks :
          task[t].pc \in {"cleanup", "unlink"} /\ task'[t].pc \notin {"cleanup", "unlink"}
          => ~IsFile(fs', task[t].downloaded_file)]_vars

(* C3 witness: the acquisition of a URL returned after a failed            *)
(* normalization and the downloaded file is gone; another returned after   *)
(* a successful one.                                                       *)
C3_Witness ==
    \E t, u \in Tasks :
        /\ task[t].kind \in {"StreamingUrl", "GenericUrl"} /\ Returned(t)
        /\ "normalizer" \in task[t].calls /\ task[t].compressed_file = None
        /\ ~IsFile(fs, task[t].downloaded_file)
        /\ task[u].kind \in {"StreamingUrl", "GenericUrl"} /\ task[u].pc = "ai"
        /\ ~IsFile(fs, task[u].downloaded_file)

(* C4: for a local file, the path the normalization writes to is never the *)
(* input path, and the caller's file stays as it was.                      *)
C4_InputNotOverwritten ==
    \A t \in Tasks :
        task[t].kind = "LocalFile" /\ task[t].compress_path # None
        => /\ task[t].compress_path # task[t].input_path
           /\ IsFile(fs, task[t].input_path)
           /\ fs[task[t].input_path] = InitFs[task[t].input_path]

(* C5: two tasks never hold their downloaded files at the same path.       *)
C5_DownloadPathsDistinct ==
    \A t, u \in Tasks :
        /\ t # u
        /\ task[t].pc \in {"web_get", "compress", "cleanup", "unlink"}
        /\ task[u].pc \in {"web_get", "compress", "cleanup", "unlink"}
        /\ task[t].downloaded_file # None /\ task[u].downloaded_file # None
        => task[t].downloaded_file # task[u].downloaded_file

(* The dispatch as the claim C6 gives it: the streaming pattern is matched *)
(* without regard to letter case.                                          *)
C6_ClaimedKind(f, input) ==
    IF IsFile(f, input) THEN "LocalFile"
    ELSE IF IsYoutubeUrl(Lower(input)) THEN "StreamingUrl"
    ELSE IF IsUrl(input) THEN "GenericUrl"
    ELSE "Invalid"

(* C6: acquire takes the branch the claim gives for the input: an existing *)
(* file is a local file; else a match of the streaming pattern in any      *)
(* letter case is a streaming URL; else http:// or https:// and a host is  *)
(* a web URL; else the input is invalid.                                   *)
C6_Dispatch ==
    fn_pc = "kind1" => fn_out[1] = C6_ClaimedKind(fs, fn_in)

(* C7: for an input classified invalid, process_media has returned         *)
(* (None, None), no collaborator was invoked and no file of the task is on *)
(* local storage.                                                          *)
C7_InvalidDoesNothing ==
    \A t \in Tasks :
        task[t].kind = "Invalid"
        => /\ Returned(t)
           /\ task[t].result = <<None, None>>
           /\ task[t].calls = {}
           /\ task[t].downloaded_file = None /\ task[t].compress_path = None
           /\ \A q \in DOMAIN fs : fs[q].by # ByTask(t)

(* C7 witness: the call for a path that is no file returned, while another *)
(* call put files on local storage.                                        *)
C7_Witness ==
    \E t, u \in Tasks :
        /\ task[t].input_path = Str("/tmp/missing.mp4") /\ task[t].kind = "Invalid" /\ Returned(t)
        /\ \E q \in DOMAIN fs : fs[q].by = ByTask(u)

AsciiNameChars == AsciiLower \cup AsciiUpper \cup AsciiDigit \cup {"_", "-"}

C9_PdfReturned ==
    \A t \in Tasks :
        /\ Returned(t)
        /\ task[t].compressed_file # None
        /\ ~Falsy(task[t].markdown_text)
        /\ ValidMode(task[t].processing_mode)
        /\ task[t].renderer = "ok"
        => /\ task[t].result[2] # None
           /\ IsFile(fs, task[t].result[2])

(* C10: once acquire has returned for a streaming or web URL, on whatever  *)
(* path, no downloaded file of the task is left on local storage.          *)
C10_NoDownloadLeft ==
    \A t \in Tasks :
        /\ task[t].kind \in {"StreamingUrl", "GenericUrl"}
        /\ task[t].pc \in {"ai", "pdf", "done"}
        /\ task[t].downloaded_file # None
        => ~(IsFile(fs, task[t].downloaded_file) /\ fs[task[t].downloaded_file].by = ByTask(t))

====
